---- MODULE Spec2Model ----
(***************************************************************************)
(* A model of the Digital Dean tutoring backend: the /grade endpoint and   *)
(* its temporary image file (src/app.py grade_image), syllabus retrieval   *)
(* (get_syllabus_context and its inlined copies), batched ingestion        *)
(* (upload_syllabus), the extraction of JSON from model replies and the     *)
(* quiz flows (src/quizadded.py start_quiz, src/app.py generate_quiz).     *)
(*                                                                         *)
(* Texts are sequences of lexemes.  The lexemes are the JSON punctuation   *)
(* "[", "]", "{", "}", the scalar "0", the blank " ", "fence" (the three   *)
(* backquotes of a code fence) and the word "json"; a json fence is        *)
(* "fence" followed by "json".                                             *)
(***************************************************************************)
EXTENDS Integers, Sequences, FiniteSets, TLC

VARIABLES
    \* ---- /grade: one entry per request served by the threaded server ----
    pc,                \* position of each request in grade_image
    filepath,          \* the request's filepath (NoPath before line 186)
    img,               \* the request's img: "unbound", "open" or "closed"
    syllabus_context,  \* the request's syllabus_context
    clean_json,        \* the request's clean_json
    status,            \* HTTP status returned (0 while in flight)
    removes,           \* os.remove calls of the request that deleted a file
    closes,            \* img.close() calls of the request on a bound img
    visioned,          \* vision_model.generate_content: "no" call yet, "ok" or "failed"
    files,             \* the uploads folder: path -> request whose save wrote it
    platform,          \* "posix" or "windows": what os.remove does to an open file
    \* ---- retrieval: one call of one of the three retrieval sites ----
    ret_pc,            \* "call", "returned" or "raised"
    ret_site,          \* the site that ran: its function name ("none" before)
    rpc_ok,            \* embed_query and the match_documents RPC answer
    matches,           \* the store's match set for the query (response.data)
    context,           \* what the site got as its context block
    \* ---- /upload: one call of upload_syllabus ----
    up_pc,             \* "request", "load", "loop" or "done"
    up_file,           \* the saved PDF is in the uploads folder
    chunks,            \* chunks (chunk k of the document is the number k)
    loop_i,            \* the loop variable i of range(0, len(chunks), batch_size)
    store,             \* rows of the documents table, in insertion order
    store0,            \* the rows the table held when the call began
    writes,            \* the batches handed to vector_store.add_documents so far
    failed_batch,      \* number of the batch whose write raised (0: none)
    up_response,       \* the reply: [status, count], count <<n>> or <<>> for none
    \* ---- extraction of JSON from one model reply ----
    ex_pc,             \* "reply" or "done"
    ex_site,           \* the function whose extractor ran ("none" before)
    raw_text,          \* response.text
    parsed,            \* what the extractor produced: [ok, value]
    \* ---- one quiz: start_quiz of the console tutor or POST /generate_quiz ----
    quiz_pc,           \* "call", "generate", "extract", "loop" or "done"
    quiz_site,         \* the function that serves the quiz ("none" before)
    quiz_rpc_ok,       \* embed_query and the match_documents RPC answered
    quiz_matches,      \* the store's match set for the topic (response.data)
    generated,         \* chat_model.generate_content was called
    quiz_data,         \* the parsed question sequence
    quiz_i,            \* questions the loop of line 178 has gone through
    asked,             \* the indices of the questions answered, in answering order
    score,             \* score of start_quiz
    correct,           \* answers that equalled the letter of the correct label
    percentage,        \* percentage of line 195: <<p>>, or <<>> before the report
    quiz_outcome       \* what the quiz reported ("none" while it runs)

gradeVars == <<pc, filepath, img, syllabus_context, clean_json, status,
               removes, closes, visioned, files, platform>>

retVars == <<ret_pc, ret_site, rpc_ok, matches, context>>

upVars == <<up_pc, up_file, chunks, loop_i, store, store0, writes, failed_batch,
            up_response>>

exVars == <<ex_pc, ex_site, raw_text, parsed>>

quizVars == <<quiz_pc, quiz_site, quiz_rpc_ok, quiz_matches, generated, quiz_data,
              quiz_i, asked, score, correct, percentage, quiz_outcome>>

vars == <<gradeVars, retVars, upVars, exVars, quizVars>>

notGrade == <<retVars, upVars, exVars, quizVars>>
notRet == <<gradeVars, upVars, exVars, quizVars>>
notUp == <<gradeVars, retVars, exVars, quizVars>>
notEx == <<gradeVars, retVars, upVars, quizVars>>
notQuiz == <<gradeVars, retVars, upVars, exVars>>

-----------------------------------------------------------------------------
(* Python string and sequence helpers                                      *)

Min(a, b) == IF a < b THEN a ELSE b

\* str.find(c): 0-based index of the first occurrence of lexeme c, or -1
find(s, c) ==
    IF \E i \in 1..Len(s) : s[i] = c
    THEN (CHOOSE i \in 1..Len(s) : s[i] = c /\ \A j \in 1..(i-1) : s[j] # c) - 1
    ELSE -1

\* str.rfind(c): 0-based index of the last occurrence of lexeme c, or -1
rfind(s, c) ==
    IF \E i \in 1..Len(s) : s[i] = c
    THEN (CHOOSE i \in 1..Len(s) : s[i] = c /\ \A j \in (i+1)..Len(s) : s[j] # c) - 1
    ELSE -1

\* s[a:b] for a >= 0, b >= 0 (empty when b <= a)
slice(s, a, b) == SubSeq(s, a + 1, Min(b, Len(s)))

IsPrefixAt(s, pat, i) ==
    /\ i + Len(pat) - 1 <= Len(s)
    /\ \A k \in 1..Len(pat) : s[i + k - 1] = pat[k]

\* str.replace(pat, ""): deletes the non-overlapping occurrences, left to right
RECURSIVE replace_from(_, _, _)
replace_from(s, pat, i) ==
    IF i > Len(s) THEN <<>>
    ELSE IF IsPrefixAt(s, pat, i) THEN replace_from(s, pat, i + Len(pat))
    ELSE <<s[i]>> \o replace_from(s, pat, i + 1)

replace(s, pat) == replace_from(s, pat, 1)

\* str.strip(): drops leading and trailing blanks
strip(s) ==
    IF \A i \in 1..Len(s) : s[i] = " " THEN <<>>
    ELSE LET a == CHOOSE i \in 1..Len(s) : s[i] # " " /\ \A j \in 1..(i-1) : s[j] = " "
             b == CHOOSE i \in 1..Len(s) : s[i] # " " /\ \A j \in (i+1)..Len(s) : s[j] = " "
         IN SubSeq(s, a, b)

FENCE == <<"fence">>
FENCE_JSON == <<"fence", "json">>

\* raw_text.replace(json fence, "").replace(fence, "").strip()
strip_fences(s) == strip(replace(replace(s, FENCE_JSON), FENCE))

-----------------------------------------------------------------------------
(* json.loads on lexeme sequences                                          *)

RECURSIVE skip_ws(_, _)
skip_ws(s, i) == IF i <= Len(s) /\ s[i] = " " THEN skip_ws(s, i + 1) ELSE i

\* index after the JSON value that starts at i, or 0 when none starts there
RECURSIVE scan_value(_, _)
scan_value(s, i) ==
    IF i > Len(s) THEN 0
    ELSE IF s[i] = "0" THEN i + 1
    ELSE IF s[i] = "{" THEN
        LET j == skip_ws(s, i + 1)
        IN IF j <= Len(s) /\ s[j] = "}" THEN j + 1 ELSE 0
    ELSE IF s[i] = "[" THEN
        LET j == skip_ws(s, i + 1)
        IN IF j <= Len(s) /\ s[j] = "]" THEN j + 1
           ELSE LET k == scan_value(s, j)
                IN IF k = 0 THEN 0
                   ELSE LET m == skip_ws(s, k)
                        IN IF m <= Len(s) /\ s[m] = "]" THEN m + 1 ELSE 0
    ELSE 0

NotBlank(t) == t # " "

\* json.loads(s): ok = FALSE stands for JSONDecodeError; value is the parsed
\* value in canonical form (its lexemes without blanks)
json_loads(s) ==
    LET k == scan_value(s, skip_ws(s, 1))
    IN IF k # 0 /\ skip_ws(s, k) = Len(s) + 1
       THEN [ok |-> TRUE, value |-> SelectSeq(s, NotBlank)]
       ELSE [ok |-> FALSE, value |-> <<>>]

-----------------------------------------------------------------------------
(* Syllabus retrieval: src/app.py get_syllabus_context                     *)

None == [isNone |-> TRUE, text |-> <<>>]
Str(s) == [isNone |-> FALSE, text |-> s]

\* Python truthiness of an Optional[str]
truthy(c) == ~c.isNone /\ c.text # <<>>

SEP == <<"\n", "\n">>

\* "\n\n".join(contents)
RECURSIVE join(_)
join(contents) ==
    IF Len(contents) = 0 THEN <<>>
    ELSE IF Len(contents) = 1 THEN contents[1]
    ELSE contents[1] \o SEP \o join(Tail(contents))

\* ok = FALSE: embed_query or the match_documents RPC raised; data is response.data
get_syllabus_context(ok, data) ==
    IF ~ok THEN None
    ELSE IF Len(data) = 0 THEN None
    ELSE Str(join(data))

-----------------------------------------------------------------------------
(* /grade: src/app.py grade_image                                          *)

Requests == {"r1", "r2"}

\* client-supplied file names and what werkzeug's secure_filename makes of them
Names == {"a.png", "../a.png", "b.png"}
secure_filename(name) == IF name = "../a.png" THEN "a.png" ELSE name

Paths == {secure_filename(n) : n \in Names}
NoPath == "none"
NoOwner == "nobody"

\* the retrieval outcomes and vision replies a grading request is run against
GradeMatches == {<<>>, << <<"s">> >>}
GradeReplies == {<<"{", "}">>, <<"json">>}

exists(p) == files[p] # NoOwner

\* some request holds an open PIL handle on path p
HeldOpen(p) == \E q \in Requests : img[q] = "open" /\ filepath[q] = p

\* grade_image lines 215-222
grade_clean_json(raw) ==
    LET start_index == find(raw, "{")
        end_index == rfind(raw, "}") + 1
    IN IF start_index # -1 /\ end_index # 0
       THEN slice(raw, start_index, end_index)
       ELSE strip_fences(raw)

GradeInit ==
    /\ pc = [r \in Requests |-> "validate"]
    /\ filepath = [r \in Requests |-> NoPath]
    /\ img = [r \in Requests |-> "unbound"]
    /\ syllabus_context = [r \in Requests |-> None]
    /\ clean_json = [r \in Requests |-> <<>>]
    /\ status = [r \in Requests |-> 0]
    /\ removes = [r \in Requests |-> 0]
    /\ closes = [r \in Requests |-> 0]
    /\ visioned = [r \in Requests |-> "no"]
    /\ files = [p \in Paths |-> NoOwner]
    /\ platform \in {"posix", "windows"}

Respond(r, code) ==
    /\ status' = [status EXCEPT ![r] = code]
    /\ pc' = [pc EXCEPT ![r] = "done"]

Goto(r, label) ==
    /\ pc' = [pc EXCEPT ![r] = label]
    /\ UNCHANGED status

\* lines 175-182: a request without image, topic or file name is refused
RejectRequest(r) ==
    /\ pc[r] = "validate"
    /\ Respond(r, 400)
    /\ UNCHANGED <<filepath, img, syllabus_context, clean_json, removes, closes,
                   visioned, files, platform, notGrade>>

\* lines 185-187: the upload is written to uploads/<secure_filename>
SaveImage(r, name) ==
    /\ pc[r] = "validate"
    /\ filepath' = [filepath EXCEPT ![r] = secure_filename(name)]
    /\ files' = [files EXCEPT ![secure_filename(name)] = r]
    /\ Goto(r, "retrieve")
    /\ UNCHANGED <<img, syllabus_context, clean_json, removes, closes, visioned,
                   platform, notGrade>>

\* lines 191-192
RetrieveContext(r, ok, data) ==
    /\ pc[r] = "retrieve"
    /\ LET c == get_syllabus_context(ok, data)
       IN /\ syllabus_context' = [syllabus_context EXCEPT ![r] = c]
          /\ Goto(r, IF ~truthy(c) THEN "nc_exists" ELSE "open")
    /\ UNCHANGED <<filepath, img, clean_json, removes, closes, visioned, files,
                   platform, notGrade>>

\* os.remove(filepath) called by r at label at: deletes the file and goes
\* on with next, or raises (the file is gone, or is held open on windows)
\* and goes on with onraise
OsRemove(r, at, next, onraise) ==
    /\ pc[r] = at
    /\ \/ /\ exists(filepath[r])
          /\ platform = "windows" => ~HeldOpen(filepath[r])
          /\ files' = [files EXCEPT ![filepath[r]] = NoOwner]
          /\ removes' = [removes EXCEPT ![r] = @ + 1]
          /\ next
       \/ /\ \/ ~exists(filepath[r])
             \/ platform = "windows" /\ HeldOpen(filepath[r])
          /\ onraise
          /\ UNCHANGED <<files, removes>>
    /\ UNCHANGED <<filepath, img, syllabus_context, clean_json, closes, visioned,
                   platform, notGrade>>

\* os.path.exists(filepath) tested by r at label at
OsPathExists(r, at, yes, no) ==
    /\ pc[r] = at
    /\ IF exists(filepath[r]) THEN yes ELSE no
    /\ UNCHANGED <<filepath, img, syllabus_context, clean_json, removes, closes,
                   visioned, files, platform, notGrade>>

\* line 194
NoContextExists(r) ==
    OsPathExists(r, "nc_exists", Goto(r, "nc_remove"), Respond(r, 404))

\* lines 195-196
NoContextRemove(r) ==
    OsRemove(r, "nc_remove", Respond(r, 404), Goto(r, "h_exists"))

\* line 199: PIL.Image.open raises when the file is gone or is no image
OpenImage(r, readable) ==
    /\ pc[r] = "open"
    /\ IF exists(filepath[r]) /\ readable
       THEN /\ img' = [img EXCEPT ![r] = "open"]
            /\ Goto(r, "vision")
       ELSE /\ Goto(r, "h_exists")
            /\ UNCHANGED img
    /\ UNCHANGED <<filepath, syllabus_context, clean_json, removes, closes,
                   visioned, files, platform, notGrade>>

\* line 208: the vision call returns a response or raises
VisionCall(r, ok) ==
    /\ pc[r] = "vision"
    /\ visioned' = [visioned EXCEPT ![r] = IF ok THEN "ok" ELSE "failed"]
    /\ Goto(r, IF ok THEN "close" ELSE "h_exists")
    /\ UNCHANGED <<filepath, img, syllabus_context, clean_json, removes, closes,
                   files, platform, notGrade>>

\* lines 211-222: img.close(), then response.text (which raises when the
\* reply carries no text) is cut down to clean_json
CloseAndExtract(r, has_text, raw) ==
    /\ pc[r] = "close"
    /\ img' = [img EXCEPT ![r] = "closed"]
    /\ closes' = [closes EXCEPT ![r] = @ + 1]
    /\ IF has_text
       THEN /\ clean_json' = [clean_json EXCEPT ![r] = grade_clean_json(raw)]
            /\ Goto(r, "ok_exists")
       ELSE /\ Goto(r, "h_exists")
            /\ UNCHANGED clean_json
    /\ UNCHANGED <<filepath, syllabus_context, removes, visioned, files, platform, notGrade>>

\* line 225
SuccessExists(r) ==
    OsPathExists(r, "ok_exists", Goto(r, "ok_remove"), Goto(r, "parse"))

\* line 226
SuccessRemove(r) ==
    OsRemove(r, "ok_remove", Goto(r, "parse"), Goto(r, "h_exists"))

\* line 228
ParseReply(r) ==
    /\ pc[r] = "parse"
    /\ IF json_loads(clean_json[r]).ok THEN Respond(r, 200) ELSE Goto(r, "h_exists")
    /\ UNCHANGED <<filepath, img, syllabus_context, clean_json, removes, closes,
                   visioned, files, platform, notGrade>>

\* line 232
HandlerExists(r) ==
    OsPathExists(r, "h_exists", Goto(r, "h_close"), Respond(r, 500))

\* lines 233-236: img.close(); the NameError of an unbound img is swallowed
HandlerClose(r) ==
    /\ pc[r] = "h_close"
    /\ IF img[r] = "unbound"
       THEN UNCHANGED <<img, closes>>
       ELSE /\ img' = [img EXCEPT ![r] = "closed"]
            /\ closes' = [closes EXCEPT ![r] = @ + 1]
    /\ Goto(r, "h_remove")
    /\ UNCHANGED <<filepath, syllabus_context, clean_json, removes, visioned,
                   files, platform, notGrade>>

\* lines 237-239; an os.remove that raises here leaves the view as a 500
HandlerRemove(r) ==
    OsRemove(r, "h_remove", Respond(r, 500), Respond(r, 500))

grade_image(r) ==
    \/ RejectRequest(r)
    \/ \E name \in Names : SaveImage(r, name)
    \/ \E ok \in BOOLEAN, data \in GradeMatches : RetrieveContext(r, ok, data)
    \/ NoContextExists(r)
    \/ NoContextRemove(r)
    \/ \E readable \in BOOLEAN : OpenImage(r, readable)
    \/ \E ok \in BOOLEAN : VisionCall(r, ok)
    \/ \E has_text \in BOOLEAN, raw \in GradeReplies : CloseAndExtract(r, has_text, raw)
    \/ SuccessExists(r)
    \/ SuccessRemove(r)
    \/ ParseReply(r)
    \/ HandlerExists(r)
    \/ HandlerClose(r)
    \/ HandlerRemove(r)

GradeNext == \E r \in Requests : grade_image(r)

-----------------------------------------------------------------------------
(* Retrieval sites: app.py get_syllabus_context, quizadded.py start_quiz   *)
(* lines 131-134, vision_grader.py grade_submission lines 55-69            *)

MaxMatches == 3

Contents == {<<"s">>, <<"t">>}

BoundedSeq(S, n) == UNION {[1..k -> S] : k \in 0..n}

MatchSets == BoundedSeq(Contents, MaxMatches)

\* quizadded.py line 134: the join is taken of whatever the RPC returned
start_quiz_context(data) == Str(join(data))

\* vision_grader.py lines 59-64 and 67-69: no grading without matches
grade_submission_context(ok, data) ==
    IF ~ok THEN None
    ELSE IF Len(data) = 0 THEN None
    ELSE Str(join(data))

RetInit ==
    /\ ret_pc = "call"
    /\ ret_site = "none"
    /\ rpc_ok \in BOOLEAN
    /\ matches \in MatchSets
    /\ context = None

RetIdle ==
    /\ ret_pc = "call"
    /\ ret_site = "none"
    /\ rpc_ok = TRUE
    /\ matches = <<>>
    /\ context = None

\* app.py lines 54-72
CallGetSyllabusContext ==
    /\ ret_pc = "call"
    /\ ret_site' = "get_syllabus_context"
    /\ context' = get_syllabus_context(rpc_ok, matches)
    /\ ret_pc' = "returned"
    /\ UNCHANGED <<rpc_ok, matches, notRet>>

\* quizadded.py lines 131-134; a failing RPC raises into the handler of line 198
CallStartQuizRetrieval ==
    /\ ret_pc = "call"
    /\ ret_site' = "start_quiz"
    /\ IF rpc_ok
       THEN /\ context' = start_quiz_context(matches)
            /\ ret_pc' = "returned"
       ELSE /\ ret_pc' = "raised"
            /\ UNCHANGED context
    /\ UNCHANGED <<rpc_ok, matches, notRet>>

\* vision_grader.py lines 55-69
CallGradeSubmissionRetrieval ==
    /\ ret_pc = "call"
    /\ ret_site' = "grade_submission"
    /\ context' = grade_submission_context(rpc_ok, matches)
    /\ ret_pc' = "returned"
    /\ UNCHANGED <<rpc_ok, matches, notRet>>

RetNext ==
    \/ CallGetSyllabusContext
    \/ CallStartQuizRetrieval
    \/ CallGradeSubmissionRetrieval

-----------------------------------------------------------------------------
(* /upload: src/app.py upload_syllabus (the same loop is in                *)
(* digital_dean_backend.py lines 86-95 and quizadded.py lines 83-91)       *)

batch_size == 50

MaxChunks == 101

\* the slice one chunk short: chunks[i : i + batch_size - 1]
batch_short(cs, i) == slice(cs, i, i + batch_size - 1)

\* chunks[i : i + batch_size]
batch(cs, i) == slice(cs, i, i + batch_size)

UpInit ==
    /\ up_pc = "request"
    /\ up_file = FALSE
    /\ chunks = <<>>
    /\ loop_i = 0
    /\ store0 \in {<<>>, <<0>>}
    /\ store = store0
    /\ writes = <<>>
    /\ failed_batch = 0
    /\ up_response = [status |-> 0, count |-> <<>>]

\* lines 83-88: no file part, or an empty file name
UploadReject ==
    /\ up_pc = "request"
    /\ up_response' = [status |-> 400, count |-> <<>>]
    /\ up_pc' = "done"
    /\ UNCHANGED <<up_file, chunks, loop_i, store, store0, writes, failed_batch, notUp>>

\* lines 91-93
UploadSave ==
    /\ up_pc = "request"
    /\ up_file' = TRUE
    /\ up_pc' = "load"
    /\ UNCHANGED <<chunks, loop_i, store, store0, writes, failed_batch, up_response,
                   notUp>>

\* lines 116-117: the handler of every exception raised in lines 96-114
UploadError ==
    /\ up_response' = [status |-> 500, count |-> <<>>]
    /\ up_pc' = "done"

\* lines 97-102 and 106-107: the PDF is loaded and split into n chunks
LoadAndSplit(ok, n) ==
    /\ up_pc = "load"
    /\ IF ok
       THEN /\ chunks' = [k \in 1..n |-> k]
            /\ up_pc' = "loop"
            /\ UNCHANGED up_response
       ELSE /\ UploadError
            /\ UNCHANGED chunks
    /\ loop_i' = 0
    /\ UNCHANGED <<up_file, store, store0, writes, failed_batch, notUp>>

\* lines 107-110, add_documents returning: the batch is committed as one write
AddDocuments ==
    /\ up_pc = "loop"
    /\ loop_i < Len(chunks)
    /\ writes' = Append(writes, batch(chunks, loop_i))
    /\ store' = store \o batch(chunks, loop_i)
    /\ loop_i' = loop_i + batch_size
    /\ UNCHANGED <<up_pc, up_file, chunks, store0, failed_batch, up_response, notUp>>

\* add_documents raising with the exception swallowed inside the loop: the
\* batch is skipped and the loop goes on
AddDocumentsRaisesContinues ==
    /\ up_pc = "loop"
    /\ loop_i < Len(chunks)
    /\ writes' = Append(writes, batch(chunks, loop_i))
    /\ failed_batch' = IF failed_batch = 0 THEN Len(writes) + 1 ELSE failed_batch
    /\ loop_i' = loop_i + batch_size
    /\ UNCHANGED <<up_pc, up_file, chunks, store, store0, up_response, notUp>>

\* add_documents raising with the handler cleaning up: the saved file is
\* deleted before the error is returned
AddDocumentsRaisesRemovesFile ==
    /\ up_pc = "loop"
    /\ loop_i < Len(chunks)
    /\ writes' = Append(writes, batch(chunks, loop_i))
    /\ failed_batch' = Len(writes) + 1
    /\ UploadError
    /\ up_file' = FALSE
    /\ UNCHANGED <<chunks, loop_i, store, store0, notUp>>

\* lines 107-109 and 116-117, add_documents raising: nothing of the batch is
\* committed and the exception ends the loop
AddDocumentsRaises ==
    /\ up_pc = "loop"
    /\ loop_i < Len(chunks)
    /\ writes' = Append(writes, batch(chunks, loop_i))
    /\ failed_batch' = Len(writes) + 1
    /\ UploadError
    /\ UNCHANGED <<up_file, chunks, loop_i, store, store0, notUp>>

\* the reply counting the batches written instead of the chunks
FinishUploadCountsBatches(removed) ==
    /\ up_pc = "loop"
    /\ loop_i >= Len(chunks)
    /\ IF removed
       THEN /\ up_file' = FALSE
            /\ up_response' = [status |-> 200, count |-> <<Len(writes)>>]
            /\ up_pc' = "done"
       ELSE /\ UploadError
            /\ UNCHANGED up_file
    /\ UNCHANGED <<chunks, loop_i, store, store0, writes, failed_batch, notUp>>

\* lines 113-114 after the loop; an os.remove that raises is handled by line 116
FinishUpload(removed) ==
    /\ up_pc = "loop"
    /\ loop_i >= Len(chunks)
    /\ IF removed
       THEN /\ up_file' = FALSE
            /\ up_response' = [status |-> 200, count |-> <<Len(chunks)>>]
            /\ up_pc' = "done"
       ELSE /\ UploadError
            /\ UNCHANGED up_file
    /\ UNCHANGED <<chunks, loop_i, store, store0, writes, failed_batch, notUp>>

upload_syllabus ==
    \/ UploadReject
    \/ UploadSave
    \/ \E ok \in BOOLEAN, n \in 0..MaxChunks : LoadAndSplit(ok, n)
    \/ AddDocuments
    \/ AddDocumentsRaises
    \/ \E removed \in BOOLEAN : FinishUpload(removed)

-----------------------------------------------------------------------------
(* Extraction of JSON from a model reply: quizadded.py start_quiz lines    *)
(* 158-173, app.py generate_quiz lines 163-167, grade_image lines 215-228  *)

MaxLen == 4

Lexemes == {"[", "]", "{", "}", "0", " ", "fence", "json"}

Replies == BoundedSeq(Lexemes, MaxLen)

Failed == [ok |-> FALSE, value |-> <<>>]

\* quizadded.py lines 159-173: ValueError is not caught by line 170, a
\* JSONDecodeError of the slice is, and the fallback's own error is not
start_quiz_extract(raw) ==
    LET start_index == find(raw, "[")
        end_index == rfind(raw, "]") + 1
    IN IF start_index = -1 \/ end_index = 0 THEN Failed
       ELSE IF json_loads(slice(raw, start_index, end_index)).ok
            THEN json_loads(slice(raw, start_index, end_index))
            ELSE json_loads(strip_fences(raw))

\* app.py lines 163-167
generate_quiz_extract(raw) ==
    LET start_index == find(raw, "[")
        end_index == rfind(raw, "]") + 1
    IN json_loads(IF start_index # -1 THEN slice(raw, start_index, end_index) ELSE raw)

\* app.py lines 215-228
grade_image_extract(raw) == json_loads(grade_clean_json(raw))

ExInit ==
    /\ ex_pc = "reply"
    /\ ex_site = "none"
    /\ raw_text \in Replies
    /\ parsed = Failed

Extract(site, result) ==
    /\ ex_pc = "reply"
    /\ ex_site' = site
    /\ parsed' = result
    /\ ex_pc' = "done"
    /\ UNCHANGED <<raw_text, notEx>>

ExtractStartQuiz == Extract("start_quiz", start_quiz_extract(raw_text))

ExtractGenerateQuiz == Extract("generate_quiz", generate_quiz_extract(raw_text))

ExtractGradeImage == Extract("grade_image", grade_image_extract(raw_text))

ExNext ==
    \/ ExtractStartQuiz
    \/ ExtractGenerateQuiz
    \/ ExtractGradeImage

-----------------------------------------------------------------------------
(* Quiz flows: quizadded.py start_quiz lines 126-200 (retrieval, generation, *)
(* the question loop and the final score) and app.py generate_quiz lines    *)
(* 145-169 (the quiz is returned to the caller, who runs the questions)     *)

MaxQuestions == 5

\* the 5 of line 195
QuizSize == 5

\* str.upper() on the letters of option labels
upper(s) ==
    [k \in 1..Len(s) |->
        CASE s[k] = "a" -> "A"
          [] s[k] = "b" -> "B"
          [] s[k] = "c" -> "C"
          [] s[k] = "d" -> "D"
          [] OTHER -> s[k]]

\* s.split(sep)[0]: the text before the first sep, all of s when there is none
split_first(s, sep) == IF find(s, sep) = -1 THEN s ELSE slice(s, 0, find(s, sep))

\* line 186: q['answer'].split(")")[0].strip().upper()
correct_letter(q) == upper(strip(split_first(q.answer[1], ")")))

\* line 183: Prompt.ask restricted to choices, then upper()
Choices == {"A", "B", "C", "D"}

OptionA == <<"A", ")", "x">>
OptionB == <<"B", ")", "x">>

\* A question is a dict; a key that is missing is the empty sequence, a key
\* that is present holds its value in a sequence of length one.
\* The questions a reply can hold: two well-formed ones (the answer as a
\* bare letter, and in lower case with its option text), one with a single
\* option and an answer that is no option, one without an answer key and
\* one without a question key.
Questions ==
    { [question |-> <<"q">>, options |-> << <<OptionA, OptionB>> >>, answer |-> << <<"A">> >>],
      [question |-> <<"q">>, options |-> << <<OptionA, OptionB>> >>,
       answer |-> << <<" ", "b", ")", "x">> >>],
      [question |-> <<"q">>, options |-> << <<OptionA>> >>, answer |-> << <<"C">> >>],
      [question |-> <<"q">>, options |-> << <<OptionA, OptionB>> >>, answer |-> <<>>],
      [question |-> <<>>, options |-> << <<OptionA, OptionB>> >>, answer |-> << <<"A">> >>] }

QuizReplies == BoundedSeq(Questions, MaxQuestions)

QuizInit ==
    /\ quiz_pc = "call"
    /\ quiz_site = "none"
    /\ quiz_rpc_ok \in BOOLEAN
    /\ quiz_matches \in GradeMatches
    /\ generated = FALSE
    /\ quiz_data = <<>>
    /\ quiz_i = 0
    /\ asked = <<>>
    /\ score = 0
    /\ correct = 0
    /\ percentage = <<>>
    /\ quiz_outcome = "none"

QuizIdle ==
    /\ quiz_pc = "call"
    /\ quiz_site = "none"
    /\ quiz_rpc_ok = TRUE
    /\ quiz_matches = <<>>
    /\ generated = FALSE
    /\ quiz_data = <<>>
    /\ quiz_i = 0
    /\ asked = <<>>
    /\ score = 0
    /\ correct = 0
    /\ percentage = <<>>
    /\ quiz_outcome = "none"

\* the quiz ends with the given report
QuizReturn(outcome) ==
    /\ quiz_outcome' = outcome
    /\ quiz_pc' = "done"

\* quizadded.py lines 198-199: the handler of every exception of lines 131-196
QuizGenerationFailed == QuizReturn("Quiz Generation Failed")

\* quizadded.py lines 131-152: the context is the join of whatever the RPC
\* returned and goes into the prompt; a failing RPC raises
StartQuizRetrieve ==
    /\ quiz_pc = "call"
    /\ quiz_site' = "start_quiz"
    /\ IF quiz_rpc_ok
       THEN /\ quiz_pc' = "generate"
            /\ UNCHANGED quiz_outcome
       ELSE QuizGenerationFailed
    /\ UNCHANGED <<quiz_rpc_ok, quiz_matches, generated, quiz_data, quiz_i, asked, score,
                   correct, percentage, notQuiz>>

\* quizadded.py lines 155-156: the call may raise
StartQuizGenerate(ok) ==
    /\ quiz_pc = "generate"
    /\ quiz_site = "start_quiz"
    /\ generated' = TRUE
    /\ IF ok
       THEN /\ quiz_pc' = "extract"
            /\ UNCHANGED quiz_outcome
       ELSE QuizGenerationFailed
    /\ UNCHANGED <<quiz_site, quiz_rpc_ok, quiz_matches, quiz_data, quiz_i, asked, score,
                   correct, percentage, notQuiz>>

\* quizadded.py lines 159-177: the extraction yields the question list data,
\* or raises; the loop starts at once on what was parsed
StartQuizExtract ==
    /\ quiz_pc = "extract"
    /\ quiz_site = "start_quiz"
    /\ \E ok \in BOOLEAN, data \in QuizReplies :
          IF ok
          THEN /\ quiz_data' = data
               /\ score' = 0
               /\ quiz_pc' = "loop"
               /\ UNCHANGED quiz_outcome
          ELSE /\ QuizGenerationFailed
               /\ UNCHANGED <<quiz_data, score>>
    /\ UNCHANGED <<quiz_site, quiz_rpc_ok, quiz_matches, generated, quiz_i, asked,
                   correct, percentage, notQuiz>>

\* the submitted label equals the letter before the first ")" of the correct
\* label, case-insensitively
IsCorrect(ans, label) ==
    LET letters == {k \in 1..Len(split_first(label, ")")) : label[k] # " "}
    IN /\ Cardinality(letters) = 1
       /\ \A k \in letters : upper(<<label[k]>>) = upper(<<ans>>)

\* the loop body asking the same question again: the index does not advance
AnswerQuestionAgain(user_ans) ==
    /\ quiz_pc = "loop"
    /\ quiz_i < Len(quiz_data)
    /\ LET q == quiz_data[quiz_i + 1]
       IN IF q.question = <<>> \/ q.options = <<>>
          THEN /\ QuizGenerationFailed
               /\ UNCHANGED <<quiz_i, asked, score, correct>>
          ELSE /\ asked' = Append(asked, quiz_i + 1)
               /\ IF q.answer = <<>>
                  THEN /\ QuizGenerationFailed
                       /\ UNCHANGED <<quiz_i, score, correct>>
                  ELSE /\ score' = IF <<user_ans>> = correct_letter(q)
                                   THEN score + 1 ELSE score
                       /\ correct' = IF IsCorrect(user_ans, q.answer[1])
                                     THEN correct + 1 ELSE correct
                       /\ quiz_i' = quiz_i
                       /\ UNCHANGED <<quiz_pc, quiz_outcome>>
    /\ UNCHANGED <<quiz_site, quiz_rpc_ok, quiz_matches, generated, quiz_data,
                   percentage, notQuiz>>

\* quizadded.py lines 178-192, one iteration: the question and its options
\* are shown (a missing key raises), the answer is read, then compared with
\* the letter of q['answer'] (a missing key raises after the answer was read)
AnswerQuestion(user_ans) ==
    /\ quiz_pc = "loop"
    /\ quiz_i < Len(quiz_data)
    /\ LET q == quiz_data[quiz_i + 1]
       IN IF q.question = <<>> \/ q.options = <<>>
          THEN /\ QuizGenerationFailed
               /\ UNCHANGED <<quiz_i, asked, score, correct>>
          ELSE /\ asked' = Append(asked, quiz_i + 1)
               /\ IF q.answer = <<>>
                  THEN /\ QuizGenerationFailed
                       /\ UNCHANGED <<quiz_i, score, correct>>
                  ELSE /\ score' = IF <<user_ans>> = correct_letter(q)
                                   THEN score + 1 ELSE score
                       /\ correct' = IF IsCorrect(user_ans, q.answer[1])
                                     THEN correct + 1 ELSE correct
                       /\ quiz_i' = quiz_i + 1
                       /\ UNCHANGED <<quiz_pc, quiz_outcome>>
    /\ UNCHANGED <<quiz_site, quiz_rpc_ok, quiz_matches, generated, quiz_data,
                   percentage, notQuiz>>

\* quizadded.py lines 195-196 after the loop: (score / 5) * 100, which is
\* the whole number 20 * score
FinalScore ==
    /\ quiz_pc = "loop"
    /\ quiz_i >= Len(quiz_data)
    /\ percentage' = <<(score * 100) \div QuizSize>>
    /\ QuizReturn("Final Score")
    /\ UNCHANGED <<quiz_site, quiz_rpc_ok, quiz_matches, generated, quiz_data, quiz_i,
                   asked, score, correct, notQuiz>>

\* app.py lines 147-149: no topic in the request
GenerateQuizReject ==
    /\ quiz_pc = "call"
    /\ quiz_site' = "generate_quiz"
    /\ QuizReturn("No topic")
    /\ UNCHANGED <<quiz_rpc_ok, quiz_matches, generated, quiz_data, quiz_i, asked, score,
                   correct, percentage, notQuiz>>

\* app.py lines 151-152
GenerateQuizRetrieve ==
    /\ quiz_pc = "call"
    /\ quiz_site' = "generate_quiz"
    /\ IF truthy(get_syllabus_context(quiz_rpc_ok, quiz_matches))
       THEN /\ quiz_pc' = "generate"
            /\ UNCHANGED quiz_outcome
       ELSE QuizReturn("Topic not found in syllabus.")
    /\ UNCHANGED <<quiz_rpc_ok, quiz_matches, generated, quiz_data, quiz_i, asked, score,
                   correct, percentage, notQuiz>>

\* app.py lines 161-169: generation and extraction in one try; the parsed
\* list is the reply, any exception is a 500
GenerateQuizReply ==
    /\ quiz_pc = "generate"
    /\ quiz_site = "generate_quiz"
    /\ generated' = TRUE
    /\ \E ok \in BOOLEAN, data \in QuizReplies :
          IF ok
          THEN /\ quiz_data' = data
               /\ QuizReturn("quiz")
          ELSE /\ QuizReturn("error")
               /\ UNCHANGED quiz_data
    /\ UNCHANGED <<quiz_site, quiz_rpc_ok, quiz_matches, quiz_i, asked, score,
                   correct, percentage, notQuiz>>

QuizNext ==
    \/ StartQuizRetrieve
    \/ \E ok \in BOOLEAN : StartQuizGenerate(ok)
    \/ StartQuizExtract
    \/ \E user_ans \in Choices : AnswerQuestion(user_ans)
    \/ FinalScore
    \/ GenerateQuizReject
    \/ GenerateQuizRetrieve
    \/ GenerateQuizReply

-----------------------------------------------------------------------------
(* Specifications                                                          *)

\* the subsystems a specification does not run stay in these states
GradeIdle ==
    /\ pc = [r \in Requests |-> "validate"]
    /\ filepath = [r \in Requests |-> NoPath]
    /\ img = [r \in Requests |-> "unbound"]
    /\ syllabus_context = [r \in Requests |-> None]
    /\ clean_json = [r \in Requests |-> <<>>]
    /\ status = [r \in Requests |-> 0]
    /\ removes = [r \in Requests |-> 0]
    /\ closes = [r \in Requests |-> 0]
    /\ visioned = [r \in Requests |-> "no"]
    /\ files = [p \in Paths |-> NoOwner]
    /\ platform = "posix"

UpIdle ==
    /\ up_pc = "request"
    /\ up_file = FALSE
    /\ chunks = <<>>
    /\ loop_i = 0
    /\ store0 = <<>>
    /\ store = <<>>
    /\ writes = <<>>
    /\ failed_batch = 0
    /\ up_response = [status |-> 0, count |-> <<>>]

ExIdle ==
    /\ ex_pc = "reply"
    /\ ex_site = "none"
    /\ raw_text = <<>>
    /\ parsed = Failed

Init == GradeInit /\ RetIdle /\ UpIdle /\ ExIdle /\ QuizIdle

Next == GradeNext

\* concurrent grading requests
Spec == Init /\ [][Next]_vars

InitRetrieve == GradeIdle /\ RetInit /\ UpIdle /\ ExIdle /\ QuizIdle

\* one retrieval call
SpecRetrieve == InitRetrieve /\ [][RetNext]_vars

InitIngest == GradeIdle /\ RetIdle /\ UpInit /\ ExIdle /\ QuizIdle

\* one upload
SpecIngest == InitIngest /\ [][upload_syllabus]_vars

InitExtract == GradeIdle /\ RetIdle /\ UpIdle /\ ExInit /\ QuizIdle

\* one extraction
SpecExtract == InitExtract /\ [][ExNext]_vars

InitQuiz == GradeIdle /\ RetIdle /\ UpIdle /\ ExIdle /\ QuizInit

\* one quiz
SpecQuiz == InitQuiz /\ [][QuizNext]_vars

-----------------------------------------------------------------------------
(* Claims on the temporary image of /grade, checked under Spec             *)

Saved(r) == filepath[r] # NoPath
Returned(r) == pc[r] = "done"
InFlight(r) == Saved(r) /\ ~Returned(r)

\* C1: the file a grading request saved no longer exists once the request
\* has returned, whichever exit it took.
C1_SavedFileGoneAtReturn ==
    \A r \in Requests : Returned(r) /\ Saved(r) => files[filepath[r]] # r

\* C2: within one grading request os.remove deletes the temporary image at
\* most once, whichever exit path is taken.
C2_DeleteAtMostOnce == \A r \in Requests : removes[r] <= 1

\* C3: the image file is never deleted while a handle that the image-open
\* step opened on it is still open; and a request whose vision call failed
\* returns having closed its handle exactly once and deleted exactly once.
C3_CloseBeforeDelete ==
    [][/\ \A p \in Paths : exists(p) /\ files'[p] = NoOwner => ~HeldOpen(p)
       /\ \A r \in Requests :
             pc'[r] = "done" /\ visioned'[r] = "failed"
                 => closes'[r] = 1 /\ removes'[r] = 1]_vars

\* C4: two grading requests in flight at the same time never use the same
\* temporary path.
C4_ExclusiveTemporaryPath ==
    \A r, q \in Requests :
        r # q /\ InFlight(r) /\ InFlight(q) => filepath[r] # filepath[q]

\* C5: when retrieval returned None, the request answers 404 (no syllabus
\* context), its image file is deleted, and it has neither opened the image
\* nor called the vision model.
C5_NoContextStillDeletes ==
    \A r \in Requests :
        Returned(r) /\ Saved(r) /\ syllabus_context[r].isNone
            => /\ status[r] = 404
               /\ files[filepath[r]] # r
               /\ img[r] = "unbound"
               /\ visioned[r] = "no"

-----------------------------------------------------------------------------
(* Claim on retrieval, checked under SpecRetrieve                          *)

\* C6: whenever the store answered, a retrieval site gets None exactly when
\* the match set is empty, never gets the empty string, and for a non-empty
\* match set gets the contents joined in the order returned.
C6_NoneIffNoMatches ==
    ret_pc = "returned" /\ rpc_ok
        => /\ context.isNone <=> Len(matches) = 0
           /\ ~(~context.isNone /\ context.text = <<>>)
           /\ Len(matches) > 0 => context = Str(join(matches))

-----------------------------------------------------------------------------
(* Claims on ingestion, checked under SpecIngest                           *)

Ceil(n, d) == (n + d - 1) \div d

\* the n-th contiguous slice of size b of the sequence cs
NthSlice(cs, n, b) ==
    [k \in 1..Min(b, Len(cs) - (n - 1) * b) |-> cs[(n - 1) * b + k]]

RECURSIVE Flatten(_)
Flatten(ss) == IF ss = <<>> THEN <<>> ELSE Head(ss) \o Flatten(Tail(ss))

Committed == Len(store) - Len(store0)

\* C7: the batches handed to the store are, in order, the contiguous slices
\* of at most batch_size chunks; once the loop has run through there are
\* exactly ceil(L / batch_size) of them and together they are the chunk
\* sequence (none for L = 0).
C7_BatchesAreSlices ==
    /\ \A n \in 1..Len(writes) :
          /\ Len(writes[n]) <= batch_size
          /\ writes[n] = NthSlice(chunks, n, batch_size)
    /\ Len(writes) <= Ceil(Len(chunks), batch_size)
    /\ loop_i >= Len(chunks)
          => /\ Len(writes) = Ceil(Len(chunks), batch_size)
             /\ Flatten(writes) = chunks

C7_Witness ==
    /\ up_response.status = 200
    /\ Len(writes) = 3
    /\ Len(writes[3]) = 1

\* C8: once the write of batch k has failed, the call is over with batch k
\* the last one handed to the store, and the table holds what it held
\* before plus the chunks of batches 1..k-1.
C8_FailureAbortsNoRollback ==
    failed_batch # 0
        => /\ up_pc = "done"
           /\ Len(writes) = failed_batch
           /\ store = store0 \o SubSeq(chunks, 1, (failed_batch - 1) * batch_size)

C8_Witness ==
    /\ failed_batch = 2
    /\ Len(chunks) > 2 * batch_size
    /\ Committed = batch_size

\* C9 as stated: the reply carries the number of chunks committed, after a
\* failed batch write as well as on success.
C9_ReturnsCommittedCount ==
    up_pc = "done" /\ (up_response.status = 200 \/ failed_batch # 0)
        => up_response.count = <<Committed>>

\* C9 amended: only the reply of a successful ingestion carries a count, the
\* total number of chunks, all committed; the reply to a failure is an error
\* without a count, while the chunks of the batches before the failing one
\* stay committed.
C9_CountOnlyOnSuccess ==
    up_pc = "done"
        => /\ up_response.status = 200
                => up_response.count = <<Len(chunks)>> /\ Committed = Len(chunks)
           /\ up_response.status = 500
                => /\ up_response.count = <<>>
                   /\ failed_batch # 0
                        => Committed = (failed_batch - 1) * batch_size

C9_Witness ==
    /\ up_pc = "done"
    /\ up_response.status = 500
    /\ failed_batch = 3
    /\ Committed = 2 * batch_size

-----------------------------------------------------------------------------
(* Claim on extraction, checked under SpecExtract                          *)

\* the brackets of the shape a site expects: an array for the quiz, an
\* object for the grade
OpenBracket(site) == IF site = "grade_image" THEN "{" ELSE "["
CloseBracket(site) == IF site = "grade_image" THEN "}" ELSE "]"

NoBracket(s, site) ==
    \A k \in 1..Len(s) : s[k] # OpenBracket(site) /\ s[k] # CloseBracket(site)

\* C10: a reply without any bracket of the expected shape never yields a
\* parsed value, in the quiz extractors and the grade extractor alike.
C10_NoBracketFails ==
    ex_pc = "done" /\ NoBracket(raw_text, ex_site) => ~parsed.ok

\* the reply holds an opening and a closing bracket of the expected shape
HasBrackets(s, site) ==
    find(s, OpenBracket(site)) # -1 /\ rfind(s, CloseBracket(site)) # -1

\* the text from the first opening bracket to the last closing bracket
BracketSlice(s, site) ==
    slice(s, find(s, OpenBracket(site)), rfind(s, CloseBracket(site)) + 1)

\* the slice parsed; when that fails, the text without its fences parsed
FallbackChain(s, site) ==
    IF json_loads(BracketSlice(s, site)).ok
    THEN json_loads(BracketSlice(s, site))
    ELSE json_loads(strip_fences(s))

\* C13: on a reply that holds brackets of the expected shape, an extractor
\* yields what the slice from the first opening to the last closing bracket
\* parses to; whenever that slice does not parse it yields what the reply
\* stripped of its fence markers parses to; it fails only when both fail.
C13_OrderedFallbackChain ==
    ex_pc = "done" /\ HasBrackets(raw_text, ex_site)
        => parsed = FallbackChain(raw_text, ex_site)

-----------------------------------------------------------------------------
(* Claims on the quiz, checked under SpecQuiz                              *)

\* C11: the final score of a quiz is correct / total * 100, total being the
\* number of questions of the quiz and correct the number of answers equal
\* to the letter of the correct label; so it lies between 0 and 100.
C11_FinalScoreIsShare ==
    quiz_outcome = "Final Score"
        => /\ percentage[1] * Len(quiz_data) = correct * 100
           /\ 0 <= percentage[1] /\ percentage[1] <= 100

\* C12: when the store answered with an empty match set for the topic, the
\* quiz never calls the generation model and never asks a question, and
\* what it reports is that the topic was not found.
C12_NoContextAbortsQuiz ==
    (quiz_site # "none" /\ quiz_outcome # "No topic" /\ quiz_rpc_ok /\ quiz_matches = <<>>)
        => /\ ~generated
           /\ asked = <<>>
           /\ quiz_pc = "done" => quiz_outcome = "Topic not found in syllabus."

\* a question with a prompt, at least two options and a correct label whose
\* letter is the leading letter of one of the options
Validated(q) ==
    /\ q.question # <<>>
    /\ q.options # <<>>
    /\ q.answer # <<>>
    /\ Len(q.options[1]) >= 2
    /\ \E k \in 1..Len(q.options[1]) : upper(<<q.options[1][k][1]>>) = correct_letter(q)

\* C14: the quiz asks for answers only on a validated question sequence: a
\* parsed list holding a question that is not validated never gets to the
\* question loop, so every question answered is validated.
C14_AnswersOnlyOnValidated ==
    quiz_pc = "loop" \/ asked # <<>>
        => \A k \in 1..Len(quiz_data) : Validated(quiz_data[k])

\* C15: the quiz reports that the topic was not found only when the store
\* answered; a failure of the embedding call or of the store query is
\* reported as something else.
C15_TransportFailureNotNoContext ==
    quiz_outcome = "Topic not found in syllabus." => quiz_rpc_ok

\* C17: the questions answered so far are the first ones of the parsed
\* list, each once and in the order of the list; the score is at least 0
\* and at most the number of questions answered, which is at most the
\* number of parsed questions; and the final score is reported only when
\* every parsed question has been answered.
C17_QuizLoopInvariant ==
    /\ \A k \in 1..Len(asked) : asked[k] = k
    /\ 0 <= score
    /\ score <= Len(asked)
    /\ Len(asked) <= Len(quiz_data)
    /\ quiz_outcome = "Final Score" => Len(asked) = Len(quiz_data)

\* a quiz of three questions run to its report with one wrong answer
C17_Witness ==
    /\ quiz_outcome = "Final Score"
    /\ asked = <<1, 2, 3>>
    /\ score = 2

-----------------------------------------------------------------------------
(* Claim on the saved PDF of /upload, checked under SpecIngest             *)

\* an upload that got past the saving of the file and has returned
UploadReturned == up_pc = "done" /\ up_response.status # 400

\* every batch of a document of at least one chunk was written
AllWritten == Len(chunks) > 0 /\ failed_batch = 0 /\ Flatten(writes) = chunks

\* C16 as stated: when the upload has returned, the saved PDF is gone
\* exactly when loading, splitting and every batch write succeeded; after a
\* failure of one of these the file is in place and the reply is an error.
C16_RemovedIffAllWritten ==
    UploadReturned
        => /\ ~up_file => failed_batch = 0 /\ Flatten(writes) = chunks
           /\ AllWritten => ~up_file
           /\ failed_batch # 0 => up_file /\ up_response.status = 500

\* C16 amended: the saved PDF stays in place while the upload runs; when the
\* upload has returned, the file is gone exactly when the reply is the
\* success, which takes every batch written and the removal itself to have
\* succeeded; after any failure (of the load, the split, a batch write or
\* the removal) the file is in place and the reply is an error.
C16_RemovedIffSuccess ==
    /\ up_pc \in {"load", "loop"} => up_file
    /\ UploadReturned
        => /\ ~up_file <=> up_response.status = 200
           /\ up_response.status = 200
                => failed_batch = 0 /\ Flatten(writes) = chunks
           /\ up_response.status # 200 => up_file /\ up_response.status = 500
           /\ failed_batch # 0 => up_file /\ up_response.status = 500

\* all batches of a document were written and the removal then failed
C16_Witness ==
    /\ UploadReturned
    /\ AllWritten
    /\ Len(writes) = 2
    /\ up_file
    /\ up_response.status = 500

====
